---- MODULE Spec2Model ----
(***************************************************************************)
(* A model of RGB-model/R-code-github/extract_rgb_features.py: the walk of *)
(* a directory tree, the per-file channel means and filename label, the    *)
(* accumulation of one record per processed image and the export of the    *)
(* records as a table.                                                     *)
(*                                                                         *)
(* Text is a sequence of one-character strings ("a.jpg" is                 *)
(* <<"a", ".", "j", "p", "g">>); a path is a sequence of components, each  *)
(* a text, and an absolute path starts with the component SEP.  A          *)
(* regular expression is a fixed-length sequence of character classes with *)
(* one capture group.  A channel mean is the exact quotient [num, den].    *)
(* Every directory below the root can be listed; only the root may be      *)
(* missing or unreadable, and an unreadable root can neither be listed nor *)
(* entered, so that no file below it can be opened.                        *)
(***************************************************************************)
EXTENDS Integers, Sequences, FiniteSets, TLC

\* ---------------------------------------------------------------- bounds

\* The most files a tree of the orchestration inputs holds.
MaxFiles == 3
\* The most pixels an image of the channel-mean inputs holds.
MaxPixels == 2

\* ------------------------------------------------------------------ text

\* An optional value: Python's None, or a text or an array.
None == [is_none |-> TRUE, value |-> <<>>]
Some(v) == [is_none |-> FALSE, value |-> v]

UpperCase == <<"A", "B", "C", "D", "E", "F", "G", "H", "I", "J", "K", "L", "M",
               "N", "O", "P", "Q", "R", "S", "T", "U", "V", "W", "X", "Y", "Z">>
LowerCase == <<"a", "b", "c", "d", "e", "f", "g", "h", "i", "j", "k", "l", "m",
               "n", "o", "p", "q", "r", "s", "t", "u", "v", "w", "x", "y", "z">>
Digits == {"0", "1", "2", "3", "4", "5", "6", "7", "8", "9"}

\* str.lower() on one character, then on a text.
LowerChar(c) ==
    IF \E i \in 1..26 : UpperCase[i] = c
    THEN LowerCase[CHOOSE i \in 1..26 : UpperCase[i] = c]
    ELSE c

lower(s) == [i \in 1..Len(s) |-> LowerChar(s[i])]

\* str.rfind("."), as a 1-based index; 0 when there is no dot.
RFindDot(s) ==
    IF \E i \in 1..Len(s) : s[i] = "."
    THEN CHOOSE i \in 1..Len(s) : s[i] = "." /\ \A j \in (i+1)..Len(s) : s[j] # "."
    ELSE 0

\* pathlib's PurePath.suffix of a base name: the text from the last dot on,
\* empty when the name has no dot, starts with its only dot or ends with one.
suffix(name) ==
    LET i == RFindDot(name)
    IN  IF 1 < i /\ i < Len(name) THEN SubSeq(name, i, Len(name)) ELSE <<>>

image_extensions ==
    { <<".", "j", "p", "g">>, <<".", "j", "p", "e", "g">>,
      <<".", "p", "n", "g">>, <<".", "b", "m", "p">> }

\* IsImageFile with a fault: the suffix compared as it is written.
IsImageFileCaseSensitive(filename) == suffix(filename) \in image_extensions

\* Path(filename).suffix.lower() in image_extensions
IsImageFile(filename) == lower(suffix(filename)) \in image_extensions

\* ----------------------------------------------------- regular expressions

\* Whether pattern p matches text s starting exactly at position i.
MatchesAt(p, s, i) ==
    /\ i + Len(p.atoms) - 1 <= Len(s)
    /\ \A k \in 1..Len(p.atoms) : s[i + k - 1] \in p.atoms[k]

\* re.search: scan the start positions from the left, the first that matches
\* wins; 0 when none does.
RECURSIVE SearchFrom(_, _, _)
SearchFrom(p, s, i) ==
    IF i > Len(s) + 1 THEN 0
    ELSE IF MatchesAt(p, s, i) THEN i
    ELSE SearchFrom(p, s, i + 1)

re_search(p, s) == SearchFrom(p, s, 1)

\* match.group(1): the text the capture group matched.
Group1(p, s, i) == SubSeq(s, i + p.gs - 1, i + p.ge - 1)

\* get_concentration_label with a fault: re.match, which only tries the
\* start of the text.
get_concentration_label_anchored(file_name, pattern) ==
    IF MatchesAt(pattern, file_name, 1)
    THEN Some(Group1(pattern, file_name, 1))
    ELSE None

get_concentration_label(file_name, pattern) ==
    LET match == re_search(pattern, file_name)
    IN  IF match # 0 THEN Some(Group1(pattern, file_name, match)) ELSE None

\* ----------------------------------------------------------------- paths

SEP == <<"/">>
CURDIR == <<".">>
PARDIR == <<".", ".">>

\* The working directory of the process, which os.path.abspath prepends to a
\* relative path.
CWD == <<SEP, <<"h">>>>

isabs(p) == Len(p) > 0 /\ p[1] = SEP

\* os.path.join(a, b): b alone when it is absolute.
join(a, b) == IF isabs(b) THEN b ELSE a \o b

\* posixpath.normpath's loop over the components after the leading separator:
\* "." is dropped; ".." removes the component before it, is dropped at the
\* top of an absolute path, and is kept at the start of a relative one.
RECURSIVE NormComps(_, _, _)
NormComps(comps, new_comps, absolute) ==
    IF comps = <<>> THEN new_comps
    ELSE LET comp == Head(comps)
             n == Len(new_comps)
         IN  IF comp = CURDIR
             THEN NormComps(Tail(comps), new_comps, absolute)
             ELSE IF \/ comp # PARDIR
                     \/ (~absolute /\ n = 0)
                     \/ (n > 0 /\ new_comps[n] = PARDIR)
             THEN NormComps(Tail(comps), Append(new_comps, comp), absolute)
             ELSE IF n > 0
             THEN NormComps(Tail(comps), SubSeq(new_comps, 1, n - 1), absolute)
             ELSE NormComps(Tail(comps), new_comps, absolute)

normpath(p) ==
    IF isabs(p) THEN <<SEP>> \o NormComps(Tail(p), <<>>, TRUE)
    ELSE LET c == NormComps(p, <<>>, FALSE)
         IN  IF c = <<>> THEN <<CURDIR>> ELSE c

abspath(p) == normpath(join(CWD, p))

\* len(os.path.commonprefix([a, b])) on lists of components.
RECURSIVE CommonPrefixLen(_, _)
CommonPrefixLen(a, b) ==
    IF a # <<>> /\ b # <<>> /\ Head(a) = Head(b)
    THEN 1 + CommonPrefixLen(Tail(a), Tail(b))
    ELSE 0

\* posixpath.relpath(path, start)
relpath(path, start) ==
    LET start_list == Tail(abspath(start))
        path_list == Tail(abspath(path))
        i == CommonPrefixLen(start_list, path_list)
        rel_list == [k \in 1..(Len(start_list) - i) |-> PARDIR]
                        \o SubSeq(path_list, i + 1, Len(path_list))
    IN  IF rel_list = <<>> THEN <<CURDIR>> ELSE rel_list

\* The text of a path: its components joined by "/".
RECURSIVE PathText(_)
PathText(p) ==
    IF p = <<>> THEN <<>>
    ELSE IF Len(p) = 1 \/ p[1] = SEP THEN p[1] \o PathText(Tail(p))
    ELSE p[1] \o SEP \o PathText(Tail(p))

\* ---------------------------------------------------------------- images

\* The files a path opens: the entries of the tree whose location below the
\* root is the same absolute path (one, or none), when the root can be entered.
FilesAt(fs, path) ==
    { e \in fs.tree :
        /\ fs.status = "ok"
        /\ abspath(join(join(fs.root, e.dir), <<e.name>>)) = abspath(path) }

\* cv2.imread: the pixel grid in the decoder's own channel order, blue, green,
\* red; None when the file is absent or is no image.
cv2_imread(fs, image_path) ==
    LET hits == FilesAt(fs, image_path)
    IN  IF hits = {} THEN None
        ELSE LET content == (CHOOSE e \in hits : TRUE).content
             IN  IF ~content.decodable THEN None
                 ELSE Some([i \in 1..Len(content.pixels) |->
                              << content.pixels[i].b, content.pixels[i].g,
                                 content.pixels[i].r >>])

\* One plane of cv2.split(image).
Channel(image, k) == [i \in 1..Len(image) |-> image[i][k]]

RECURSIVE SumSeq(_)
SumSeq(s) == IF s = <<>> THEN 0 ELSE Head(s) + SumSeq(Tail(s))

\* np.mean of one plane, as the exact quotient num / den.
np_mean(channel) == [num |-> SumSeq(channel), den |-> Len(channel)]

\* extract_rgb_features with a fault: the planes taken in the order red,
\* green, blue.
extract_rgb_features_rgb(fs, image_path) ==
    LET image == cv2_imread(fs, image_path)
    IN  IF image.is_none THEN [raised |-> TRUE, value |-> <<>>]
        ELSE [raised |-> FALSE,
              value |-> << np_mean(Channel(image.value, 3)),
                           np_mean(Channel(image.value, 2)),
                           np_mean(Channel(image.value, 1)) >>]

\* extract_rgb_features: raises ValueError when the decoder returns no image,
\* else returns (blue_mean, green_mean, red_mean).
extract_rgb_features(fs, image_path) ==
    LET image == cv2_imread(fs, image_path)
    IN  IF image.is_none THEN [raised |-> TRUE, value |-> <<>>]
        ELSE [raised |-> FALSE,
              value |-> << np_mean(Channel(image.value, 1)),
                           np_mean(Channel(image.value, 2)),
                           np_mean(Channel(image.value, 3)) >>]

\* ---------------------------------------------------------------- inputs

\* File names.
N_a_jpg == <<"a", ".", "j", "p", "g">>
N_n_txt == <<"n", ".", "t", "x", "t">>
N_B_002_jpg == <<"B", "_", "0", "0", "2", ".", "j", "p", "g">>
N_sample_png == <<"s", "a", "m", "p", "l", "e", ".", "p", "n", "g">>
N_X_PNG == <<"X", ".", "P", "N", "G">>
N_x_Jpeg == <<"x", ".", "J", "p", "e", "g">>
N_c_bmp == <<"c", ".", "b", "m", "p">>
N_README == <<"R", "E", "A", "D", "M", "E">>
N_Q_raw == <<"Q", "_", "r", "a", "w">>
N_dot_jpg == <<".", "j", "p", "g">>
N_a_jpg_txt == <<"a", ".", "j", "p", "g", ".", "t", "x", "t">>
N_a_jpg_dot == <<"a", ".", "j", "p", "g", ".">>
N_s_pngx == <<"s", ".", "p", "n", "g", "x">>
N_xC_D_png == <<"x", "C", "_", "D", "_", "7", ".", "p", "n", "g">>
N_x_png == <<"x", ".", "p", "n", "g">>
N_r_12_34_bmp == <<"r", "_", "1", "2", "_", "3", "4", ".", "b", "m", "p">>

OrchNames == { N_a_jpg, N_n_txt }
AllNames ==
    { N_a_jpg, N_n_txt, N_B_002_jpg, N_sample_png, N_X_PNG, N_x_Jpeg, N_c_bmp,
      N_README, N_Q_raw, N_dot_jpg, N_a_jpg_txt, N_a_jpg_dot, N_s_pngx,
      N_xC_D_png, N_x_png, N_r_12_34_bmp }

\* Directories below the root, as lists of directory names.
C_sub == <<"s", "u", "b">>
C_dir == <<"d", "i", "r">>
C_A_d == <<"A", "_", "d">>
C_conc == <<"c", "o", "n", "c">>
C_data == <<"d", "a", "t", "a">>

D_root == <<>>
D_sub == <<C_sub>>
D_sub_dir == <<C_sub, C_dir>>
D_A_d == <<C_A_d>>
D_conc == <<C_conc>>

\* The shapes of tree: the directories that exist below the root.
Shapes ==
    { {D_root}, {D_root, D_sub, D_sub_dir}, {D_root, D_sub, D_A_d} }

\* File contents: a file that is no image, and images of RGB pixels.
Undecodable == [decodable |-> FALSE, pixels |-> <<>>]
Image(pixels) == [decodable |-> TRUE, pixels |-> pixels]
Solid == Image(<< [r |-> 255, g |-> 100, b |-> 0], [r |-> 255, g |-> 100, b |-> 0] >>)

PixelValues == [r : {0, 100, 255}, g : {0, 255}, b : {0, 100, 255}]
PixelGrids == UNION { [1..n -> PixelValues] : n \in 1..MaxPixels }

\* The label patterns: ([A-Z])_ (the default), _([0-9][0-9]) and ([a-z])\.
UpperSet == { UpperCase[i] : i \in 1..26 }
LowerSet == { LowerCase[i] : i \in 1..26 }
P_default == [atoms |-> << UpperSet, {"_"} >>, gs |-> 1, ge |-> 1]
P_digits == [atoms |-> << {"_"}, Digits, Digits >>, gs |-> 2, ge |-> 3]
P_stem == [atoms |-> << LowerSet, {"."} >>, gs |-> 1, ge |-> 1]
Patterns == { P_default, P_digits, P_stem }

\* Root directories as the caller writes them: absolute, relative, and
\* with "." and ".." components.
R_abs == << SEP, C_data >>
Roots ==
    { R_abs, << C_conc >>, << CURDIR >>, << PARDIR >>,
      << C_conc, PARDIR, C_conc >>, << SEP, C_data, C_sub >>, << C_sub >> }

Input(root, status, dirs, tree, writable, pattern) ==
    [ root |-> root, status |-> status, dirs |-> dirs, tree |-> tree,
      out_writable |-> writable, pattern |-> pattern ]

File(dir, name, content) == [dir |-> dir, name |-> name, content |-> content]

\* The trees of one shape with at most n files, one file per name and
\* directory.
Trees(dirs, names, contents, n) ==
    LET entries == { File(d, m, c) : d \in dirs, m \in names, c \in contents }
    IN  { t \in SUBSET entries :
            /\ Cardinality(t) <= n
            /\ \A e1, e2 \in t : (e1.dir = e2.dir /\ e1.name = e2.name) => e1 = e2 }

\* Orchestration: trees of up to MaxFiles files, decodable or not, image or
\* not, at every depth; the root listable, unreadable or missing; the output
\* path writable or not.
OrchInputs ==
    UNION { { Input(R_abs, sc[1], dirs, tree, sc[2], P_default) :
                sc \in { <<"ok", TRUE>>, <<"ok", FALSE>>, <<"unreadable", TRUE>> },
                tree \in Trees(dirs, OrchNames, {Undecodable, Solid}, MaxFiles) } :
            dirs \in Shapes }
    \cup { Input(R_abs, "missing", {}, {}, w, P_default) : w \in BOOLEAN }

\* Names and labels: one file of any name, in the root or in a directory
\* whose own name matches the default pattern, under each pattern.
NameInputs ==
    { Input(R_abs, "ok", {D_root, D_sub, D_A_d}, {File(d, m, c)}, TRUE, p) :
        d \in {D_root, D_A_d}, m \in AllNames, c \in {Undecodable, Solid},
        p \in Patterns }

\* Channel means: one image of up to MaxPixels pixels of any colours.
PixelInputs ==
    { Input(R_abs, "ok", {D_root}, {File(D_root, N_a_jpg, Image(g))}, TRUE, P_default) :
        g \in PixelGrids }

\* Relative paths: each way of writing the root, one image per directory.
PathInputs ==
    { Input(root, "ok", {D_root, D_sub, D_sub_dir},
            { File(d, N_x_png, Solid) : d \in ds }, TRUE, P_default) :
        root \in Roots, ds \in SUBSET {D_root, D_sub, D_sub_dir} }

Inputs == OrchInputs \cup NameInputs \cup PixelInputs \cup PathInputs

\* ----------------------------------------------------------------- state

VARIABLES
    root_directory,  \* the root directory the caller names
    pattern,         \* the label pattern the caller names
    fs,              \* the filesystem: the tree below the root, the root's
                     \* state, whether the output path can be written
    stack,           \* os.walk: the directories still to list
    dirpath,         \* os.walk: the directory being visited
    filenames,       \* the files of dirpath the inner loop has yet to visit
    data,            \* the list of records
    console,         \* the lines printed
    out_file,        \* the output file: None until it is written
    pc,              \* "walk", "files", "export", "done", "raised"
    visited,         \* history: the files the inner loop has visited, in order
    extract_calls,   \* history: the visits handed to extract_rgb_features
    label_calls      \* history: the visits handed to get_concentration_label

vars == << root_directory, pattern, fs, stack, dirpath, filenames, data,
           console, out_file, pc, visited, extract_calls, label_calls >>

Init ==
    \E in \in Inputs :
        /\ root_directory = in.root
        /\ pattern = in.pattern
        /\ fs = [root |-> in.root, status |-> in.status, dirs |-> in.dirs,
                 tree |-> in.tree, out_writable |-> in.out_writable]
        /\ stack = << in.root >>
        /\ dirpath = <<>>
        /\ filenames = <<>>
        /\ data = <<>>
        /\ console = <<>>
        /\ out_file = None
        /\ pc = "walk"
        /\ visited = <<>>
        /\ extract_calls = <<>>
        /\ label_calls = <<>>

\* ------------------------------------------------------------- traversal

\* The orderings of a finite set: os.scandir lists a directory in an order
\* the operating system chooses.
Orderings(S) ==
    { q \in [1..Cardinality(S) -> S] : \A i, j \in 1..Cardinality(S) : q[i] = q[j] => i = j }

\* The directories of the tree a path names (one, or none).
DirsAt(fsys, path) ==
    { d \in fsys.dirs : abspath(join(fsys.root, d)) = abspath(path) }

\* os.scandir(top) fails when top is missing or cannot be listed.
CanList(fsys, top) ==
    /\ DirsAt(fsys, top) # {}
    /\ \A d \in DirsAt(fsys, top) : d = D_root => fsys.status = "ok"

\* The names of the subdirectories and of the files of directory top.
SubdirNames(fsys, top) ==
    { d[Len(d)] : d \in { x \in fsys.dirs :
        \E t \in DirsAt(fsys, top) : Len(x) = Len(t) + 1 /\ SubSeq(x, 1, Len(t)) = t } }

FileNames(fsys, top) ==
    { e.name : e \in { x \in fsys.tree : x.dir \in DirsAt(fsys, top) } }

\* Descend with a fault: the walk does not enter subdirectories.
DescendNot(top, dirs, rest) == rest

\* os.walk, top down: the subdirectories of top are walked next, in the
\* order listed, before the directories already pending.
Descend(top, dirs, rest) ==
    [i \in 1..Len(dirs) |-> join(top, << dirs[i] >>)] \o rest

\* os.walk yields the next directory: a directory that cannot be listed is
\* passed over in silence (onerror is None).
WalkDir ==
    /\ pc = "walk"
    /\ stack # <<>>
    /\ LET top == Head(stack)
       IN  IF ~CanList(fs, top)
           THEN /\ stack' = Tail(stack)
                /\ UNCHANGED << dirpath, filenames, pc >>
           ELSE \E dirs \in Orderings(SubdirNames(fs, top)),
                   nondirs \in Orderings(FileNames(fs, top)) :
                    /\ stack' = Descend(top, dirs, Tail(stack))
                    /\ dirpath' = top
                    /\ filenames' = nondirs
                    /\ pc' = "files"
    /\ UNCHANGED << root_directory, pattern, fs, data, console, out_file,
                    visited, extract_calls, label_calls >>

\* os.walk is exhausted: the outer loop ends.
WalkEnd ==
    /\ pc = "walk"
    /\ stack = <<>>
    /\ pc' = "export"
    /\ UNCHANGED << root_directory, pattern, fs, stack, dirpath, filenames,
                    data, console, out_file, visited, extract_calls, label_calls >>

\* The files of dirpath are exhausted: the inner loop ends.
FilesEnd ==
    /\ pc = "files"
    /\ filenames = <<>>
    /\ pc' = "walk"
    /\ UNCHANGED << root_directory, pattern, fs, stack, dirpath, filenames,
                    data, console, out_file, visited, extract_calls, label_calls >>

\* ------------------------------------------------------------- loop body

\* LabelOf with a fault: the label taken from the whole path of the file.
LabelOfPath(dir, filename, pat) ==
    get_concentration_label(PathText(join(dir, << filename >>)), pat)

\* concentration_label = get_concentration_label(filename, pattern)
LabelOf(dir, filename, pat) == get_concentration_label(filename, pat)

\* relative_path with a fault: the directory as the walk names it.
relative_path_unrelated(dir, root) == dir

\* relative_path = os.path.relpath(dirpath, root_directory)
relative_path(dir, root) == relpath(dir, root)

\* The dictionary appended for one file.
Record(filename, folder, means, label) ==
    [ filename |-> filename, folder |-> folder, Blue |-> means[1],
      Green |-> means[2], Red |-> means[3], Concentration_Label |-> label ]

\* AppendRecord with a fault: the record put at the front of the list.
PrependRecord(list, rec) == << rec >> \o list

\* data.append(...)
AppendRecord(list, rec) == Append(list, rec)

\* ExceptHandler with a fault: the failure is not caught and ends the run.
ExceptHandlerReraise(list, lines, image_path) ==
    [data |-> list, console |-> lines, pc |-> "raised"]

\* except Exception as e: one diagnostic naming the file, and the loop goes on.
ExceptHandler(list, lines, image_path) ==
    [ data |-> list,
      console |-> Append(lines, [kind |-> "error", path |-> image_path, n |-> 0]),
      pc |-> "files" ]

\* One pass of the inner loop, for the first of the files yet to visit.
ProcessFile ==
    /\ pc = "files"
    /\ filenames # <<>>
    /\ LET filename == Head(filenames)
           image_path == join(dirpath, << filename >>)
       IN  /\ filenames' = Tail(filenames)
           /\ visited' = Append(visited, << dirpath, filename >>)
           /\ IF IsImageFile(filename)
              THEN LET got == extract_rgb_features(fs, image_path)
                   IN  /\ extract_calls' = Append(extract_calls, << dirpath, filename >>)
                       /\ IF got.raised
                          THEN LET h == ExceptHandler(data, console, image_path)
                               IN  /\ data' = h.data
                                   /\ console' = h.console
                                   /\ pc' = h.pc
                                   /\ UNCHANGED label_calls
                          ELSE LET label == LabelOf(dirpath, filename, pattern)
                                   folder == relative_path(dirpath, root_directory)
                               IN  /\ data' = AppendRecord(data,
                                                Record(filename, folder, got.value, label))
                                   /\ console' = Append(console,
                                        [kind |-> "processed",
                                         path |-> join(folder, << filename >>), n |-> 0])
                                   /\ label_calls' = Append(label_calls, << dirpath, filename >>)
                                   /\ pc' = pc
              ELSE UNCHANGED << extract_calls, label_calls, data, console, pc >>
    /\ UNCHANGED << root_directory, pattern, fs, stack, dirpath, out_file >>

\* ---------------------------------------------------------------- export

Header == << "filename", "folder", "Blue", "Green", "Red", "Concentration_Label" >>

\* One row of the table: the fields of a record in column order, an absent
\* label written as the empty field.
Row(rec) ==
    << rec.filename, rec.folder, rec.Blue, rec.Green, rec.Red,
       IF rec.Concentration_Label.is_none THEN <<>> ELSE rec.Concentration_Label.value >>

\* pd.DataFrame(data).to_csv(output_csv, index=False)
to_csv(list) == [header |-> Header, rows |-> [i \in 1..Len(list) |-> Row(list[i])]]

\* HasData with a fault: the table is written whatever the list holds.
HasDataAlways(list) == TRUE

\* if data:
HasData(list) == list # <<>>

\* After the traversal: the records are written when there are any, and
\* otherwise the run reports that it found no file to process.  Writing to a
\* path that cannot be written raises, and nothing catches it.
Export ==
    /\ pc = "export"
    /\ IF HasData(data)
       THEN IF fs.out_writable
            THEN /\ out_file' = Some(to_csv(data))
                 /\ console' = console \o
                        << [kind |-> "saved", path |-> <<>>, n |-> 0],
                           [kind |-> "count", path |-> <<>>, n |-> Len(data)] >>
                 /\ pc' = "done"
            ELSE /\ pc' = "raised"
                 /\ UNCHANGED << out_file, console >>
       ELSE /\ console' = Append(console, [kind |-> "none_found", path |-> <<>>, n |-> 0])
            /\ pc' = "done"
            /\ UNCHANGED out_file
    /\ UNCHANGED << root_directory, pattern, fs, stack, dirpath, filenames,
                    data, visited, extract_calls, label_calls >>

Next == WalkDir \/ WalkEnd \/ FilesEnd \/ ProcessFile \/ Export

Spec == Init /\ [][Next]_vars

\* ---------------------------------------------------------------- claims

\* The file of the tree that a visit << dirpath, filename >> names.
EntryOf(v) == CHOOSE e \in fs.tree : join(fs.root, e.dir) = v[1] /\ e.name = v[2]

\* The visit of a file of the tree.
VisitOf(e) == << join(fs.root, e.dir), e.name >>

\* A name ends, whatever the case of its letters, with one of the four
\* extensions, and has at least one character before it.
EndsWithExt(name) ==
    \E ext \in image_extensions :
        /\ Len(name) > Len(ext)
        /\ lower(SubSeq(name, Len(name) - Len(ext) + 1, Len(name))) = ext

\* A file the decoder can decode: it holds an image and can be opened.
Decodes(e) == e.content.decodable /\ fs.status = "ok"

\* A file that has a recognized extension and decodes.
Qualifies(e) == EndsWithExt(e.name) /\ Decodes(e)

RowsWritten == IF out_file.is_none THEN 0 ELSE Len(out_file.value.rows)

Finished == pc = "done"

\* The folder a record of a file in directory d (below the root) must name.
FolderOf(d) == IF d = <<>> THEN << CURDIR >> ELSE d

\* The records of a file of the tree: the positions of data that name it.
RecordsOf(e) ==
    { i \in 1..Len(data) :
        data[i].filename = e.name /\ data[i].folder = FolderOf(e.dir) }

\* C1: when the run has finished, the table holds as many rows as the tree
\* holds files that have a recognized extension and decode, whatever their
\* depth: one row for each such file and none for any other file.
C1_RowsEqualQualifyingFiles ==
    Finished =>
        /\ RowsWritten = Cardinality({ e \in fs.tree : Qualifies(e) })
        /\ \A e \in fs.tree :
              Cardinality(RecordsOf(e)) = IF Qualifies(e) THEN 1 ELSE 0

\* C1's case: a finished run over a tree that holds an image two directories
\* down, a file that does not decode and a file that is no image by its name.
C1_Witness ==
    /\ Finished
    /\ RowsWritten >= 1
    /\ \E e \in fs.tree : Qualifies(e) /\ Len(e.dir) = 2
    /\ \E e \in fs.tree : EndsWithExt(e.name) /\ ~Decodes(e)
    /\ \E e \in fs.tree : ~EndsWithExt(e.name)

\* The file the inner loop is about to visit is an image file by its name
\* that the decoder cannot decode.
AboutToFail ==
    /\ pc = "files"
    /\ filenames # <<>>
    /\ LET e == EntryOf(<< dirpath, Head(filenames) >>)
       IN  EndsWithExt(e.name) /\ ~Decodes(e)

\* A failure adds one diagnostic naming the file, leaves the records, the
\* pending directories and the output as they are, and the loop goes on
\* with the next file.
C2_FailureStep ==
    AboutToFail =>
        /\ data' = data
        /\ console' = Append(console,
              [kind |-> "error", path |-> join(dirpath, << Head(filenames) >>), n |-> 0])
        /\ filenames' = Tail(filenames)
        /\ pc' = "files"
        /\ UNCHANGED << stack, dirpath, out_file >>

\* The run is never ended by a file: it ends in an error only at the export,
\* and when the traversal of a listable root is over every file of the tree
\* has been visited once.
C2_NoAbort ==
    /\ pc = "raised" => (data # <<>> /\ ~fs.out_writable /\ stack = <<>> /\ filenames = <<>>)
    /\ (pc \in {"export", "done", "raised"} /\ fs.status = "ok") =>
          /\ { visited[i] : i \in 1..Len(visited) } = { VisitOf(e) : e \in fs.tree }
          /\ Len(visited) = Cardinality(fs.tree)

\* C2: a file that fails to decode costs one diagnostic and nothing else:
\* no record is added, the records before it stay, and every remaining file
\* is visited; a failure never ends the run.
C2_FailureIsSkipped == [] C2_NoAbort /\ [][C2_FailureStep]_vars

\* C2's case: a run that finished after a record, a failure and another record.
C2_Witness ==
    /\ Finished
    /\ \E i, j, k \in 1..Len(console) :
          /\ i < j /\ j < k
          /\ console[i].kind = "processed"
          /\ console[j].kind = "error"
          /\ console[k].kind = "processed"

\* C3: a run that produced no record ends normally, writes no output file
\* and reports that it found nothing to process; an output file exists only
\* when there is at least one record.
C3_NoRecordsNoFile ==
    /\ (data = <<>> /\ pc \in {"done", "raised"}) =>
          /\ pc = "done"
          /\ out_file.is_none
          /\ console # <<>>
          /\ console[Len(console)].kind = "none_found"
    /\ ~out_file.is_none => data # <<>>

\* C3's case: every candidate file failed to decode and the run has ended.
C3_Witness ==
    /\ Finished
    /\ data = <<>>
    /\ extract_calls # <<>>
    /\ out_file.is_none

\* C4: a run whose root directory is missing or unreadable, or whose output
\* path cannot be written, does not complete normally.
C4_EnvironmentFaultIsFatal ==
    (fs.status # "ok" \/ ~fs.out_writable) => ~Finished

\* The positions of text s at which pattern p matches.
MatchStarts(p, s) ==
    { i \in 1..Len(s) :
        /\ i + Len(p.atoms) - 1 <= Len(s)
        /\ \A k \in 1..Len(p.atoms) : s[i + k - 1] \in p.atoms[k] }

\* The label of text s under pattern p: the capture group's text at the
\* leftmost match, None when there is no match.
LeftmostGroup(p, s) ==
    IF MatchStarts(p, s) = {} THEN None
    ELSE LET i == CHOOSE m \in MatchStarts(p, s) : \A o \in MatchStarts(p, s) : m <= o
         IN  Some(SubSeq(s, i + p.gs - 1, i + p.ge - 1))

\* C5: the label of every record is the capture group's text at the leftmost
\* match of the pattern in the file name, and None when the pattern matches
\* nowhere; each call of the label extractor ends in a record, none in an
\* error.  Under ([A-Z])_ the name B_002.jpg has label B and sample.png none.
C5_LabelIsLeftmostGroup ==
    /\ \A i \in 1..Len(data) :
          /\ data[i].Concentration_Label = LeftmostGroup(pattern, data[i].filename)
          /\ (pattern = P_default /\ data[i].filename = N_B_002_jpg)
                => data[i].Concentration_Label = Some(<< "B" >>)
          /\ (pattern = P_default /\ data[i].filename = N_sample_png)
                => data[i].Concentration_Label = None
    /\ Len(label_calls) = Len(data)
    /\ \A i \in 1..Len(data) : label_calls[i][2] = data[i].filename

\* C5's case: a name with two matches, neither at its start, has the label
\* of the first.
C5_Witness ==
    \E i \in 1..Len(data) :
        /\ data[i].filename = N_xC_D_png
        /\ pattern = P_default
        /\ data[i].Concentration_Label = Some(<< "C" >>)

\* The console lines about a file of the tree.
LinesOf(e) ==
    { i \in 1..Len(console) :
        \/ /\ console[i].kind = "error"
           /\ console[i].path = join(join(fs.root, e.dir), << e.name >>)
        \/ /\ console[i].kind = "processed"
           /\ console[i].path = join(FolderOf(e.dir), << e.name >>) }

\* C6: a visited file that decodes and whose base name holds no match of the
\* pattern has exactly one record, with no label and with its three means,
\* and no diagnostic; a match in a directory name of its path gives no label.
C6_NoLabelStillOneRecord ==
    \A e \in fs.tree :
        (/\ VisitOf(e) \in { visited[i] : i \in 1..Len(visited) }
         /\ Qualifies(e)
         /\ MatchStarts(pattern, e.name) = {})
        => /\ Cardinality(RecordsOf(e)) = 1
           /\ \A i \in RecordsOf(e) :
                 /\ data[i].Concentration_Label = None
                 /\ data[i].Blue.den = Len(e.content.pixels)
                 /\ data[i].Green.den = Len(e.content.pixels)
                 /\ data[i].Red.den = Len(e.content.pixels)
           /\ \A i \in LinesOf(e) : console[i].kind # "error"

\* C6's case: under ([A-Z])_ a record without a label for a file in the
\* directory A_d.
C6_Witness ==
    /\ pattern = P_default
    /\ \E e \in fs.tree :
          /\ e.dir = D_A_d
          /\ \E i \in RecordsOf(e) : data[i].Concentration_Label = None

Visits(s) == { s[i] : i \in 1..Len(s) }

\* C7 as claimed: a visited file is handed to both extractors exactly when
\* its name ends with a recognized extension; any other file is not decoded
\* and has no record and no console line.
C7_BothExtractorsIffExtension ==
    \A v \in Visits(visited) :
        LET e == EntryOf(v)
        IN  /\ (v \in Visits(extract_calls) /\ v \in Visits(label_calls))
                  <=> EndsWithExt(e.name)
            /\ ~EndsWithExt(e.name) => (RecordsOf(e) = {} /\ LinesOf(e) = {})

\* C7, amended: a visited file is handed to the channel-mean extractor
\* exactly when its name ends with a recognized extension, and to the label
\* extractor exactly when it also decodes; any other file is not decoded and
\* has no record and no console line.
C7_ExtractorIffExtension ==
    /\ Visits(extract_calls) \subseteq Visits(visited)
    /\ Visits(label_calls) \subseteq Visits(visited)
    /\ \A v \in Visits(visited) :
          LET e == EntryOf(v)
          IN  /\ v \in Visits(extract_calls) <=> EndsWithExt(e.name)
              /\ v \in Visits(label_calls) <=> (EndsWithExt(e.name) /\ Decodes(e))
              /\ ~EndsWithExt(e.name) => (RecordsOf(e) = {} /\ LinesOf(e) = {})

\* C7's case: x.Jpeg, which does not decode, was handed to the channel-mean
\* extractor and not to the label extractor.
C7_Witness ==
    /\ Finished
    /\ \E v \in Visits(extract_calls) : v[2] = N_x_Jpeg /\ v \notin Visits(label_calls)

\* The files of the tree that were visited and have a record due.
Processed == { e \in fs.tree : VisitOf(e) \in Visits(visited) /\ Qualifies(e) }

\* C8: the record of a processed file <root>/d1/.../dk/x names x as its
\* filename and d1/.../dk as its folder ("." for a file of the root itself):
\* the folder is relative, does not repeat the root, and root, folder and
\* filename joined name the file.
C8_FolderIsRelativeToRoot ==
    /\ \A e \in Processed : Cardinality(RecordsOf(e)) = 1
    /\ \A i \in 1..Len(data) :
          /\ ~isabs(data[i].folder)
          /\ "/" \notin { data[i].filename[k] : k \in 1..Len(data[i].filename) }
          /\ \E e \in Processed :
                /\ data[i].filename = e.name
                /\ data[i].folder = FolderOf(e.dir)
                /\ abspath(join(join(root_directory, data[i].folder),
                                << data[i].filename >>))
                      = abspath(root_directory) \o e.dir \o << e.name >>

\* C8's case: under a root written with a ".." component, one record for a
\* file two directories down and one for a file of the root itself.
C8_Witness ==
    /\ root_directory = << C_conc, PARDIR, C_conc >>
    /\ \E i, j \in 1..Len(data) :
          /\ data[i].folder = << C_sub, C_dir >>
          /\ data[i].filename = N_x_png
          /\ data[j].folder = << CURDIR >>

\* The sum, the least and the greatest value of one colour over the pixels
\* of a file.
Reds(e) == [k \in 1..Len(e.content.pixels) |-> e.content.pixels[k].r]
Greens(e) == [k \in 1..Len(e.content.pixels) |-> e.content.pixels[k].g]
Blues(e) == [k \in 1..Len(e.content.pixels) |-> e.content.pixels[k].b]

\* A quotient is the arithmetic mean of a list of values, and so lies
\* between the least and the greatest of them.
IsMeanOf(q, values) ==
    /\ q.den = Len(values)
    /\ q.num = SumSeq(values)
    /\ \E lo, hi \in { values[k] : k \in 1..Len(values) } :
          /\ \A k \in 1..Len(values) : lo <= values[k] /\ values[k] <= hi
          /\ lo * q.den <= q.num
          /\ q.num <= hi * q.den

\* Every pixel of a file has the colour (r, g, b).
IsSolid(e, r, g, b) ==
    \A k \in 1..Len(e.content.pixels) :
        e.content.pixels[k] = [r |-> r, g |-> g, b |-> b]

\* C9: the Blue, Green and Red of a record are the means of the blue, green
\* and red values of the pixels of its file, in that order; for an image of
\* one colour (r, g, b) they are b, g and r.
C9_MeansInBlueGreenRedOrder ==
    \A e \in Processed :
        \A i \in RecordsOf(e) :
            /\ IsMeanOf(data[i].Blue, Blues(e))
            /\ IsMeanOf(data[i].Green, Greens(e))
            /\ IsMeanOf(data[i].Red, Reds(e))
            /\ \A px \in PixelValues :
                  IsSolid(e, px.r, px.g, px.b) =>
                     /\ data[i].Blue.num = px.b * data[i].Blue.den
                     /\ data[i].Green.num = px.g * data[i].Green.den
                     /\ data[i].Red.num = px.r * data[i].Red.den

\* C9's case: the record of an image of two pixels of different colours,
\* whose blue and red sums differ.
C9_Witness ==
    \E e \in Processed :
        /\ Len(e.content.pixels) = 2
        /\ e.content.pixels[1] # e.content.pixels[2]
        /\ SumSeq(Blues(e)) # SumSeq(Reds(e))
        /\ RecordsOf(e) # {}

IsPrefix(s, t) == Len(s) <= Len(t) /\ SubSeq(t, 1, Len(s)) = s

\* The visit of a file that gets a record.
Succeeds(v) == Qualifies(EntryOf(v))

\* Each step keeps the records it found and adds at the end only; the output
\* is written by the step that ends the run, after the traversal, and is not
\* written again.
C10_Step ==
    /\ IsPrefix(data, data')
    /\ out_file' # out_file =>
          /\ out_file.is_none
          /\ pc = "export" /\ stack = <<>> /\ filenames = <<>>
          /\ pc' = "done"
          /\ data' = data

\* The records are those of the visits that succeeded, in the order of the
\* visits; an output file holds one row per record, in the order of the list.
C10_Order ==
    /\ LET done == SelectSeq(visited, Succeeds)
       IN  /\ Len(data) = Len(done)
           /\ \A i \in 1..Len(data) :
                 /\ data[i].filename = done[i][2]
                 /\ data[i].folder = FolderOf(EntryOf(done[i]).dir)
    /\ ~out_file.is_none =>
          /\ Finished
          /\ Len(out_file.value.rows) = Len(data)
          /\ \A i \in 1..Len(data) :
                LET row == out_file.value.rows[i]
                IN  /\ row[1] = data[i].filename
                    /\ row[2] = data[i].folder
                    /\ row[3] = data[i].Blue
                    /\ row[4] = data[i].Green
                    /\ row[5] = data[i].Red
                    /\ row[6] = data[i].Concentration_Label.value

\* C10: the list of records only grows at its end during the run, its
\* records are in the order of the visits, and the output is written once,
\* after the traversal, with the rows of the final list in its order.
C10_AppendOnlyInVisitOrder == [] C10_Order /\ [][C10_Step]_vars

\* C10's case: an output file of three rows, written after a traversal that
\* met them in three directories.
C10_Witness ==
    /\ ~out_file.is_none
    /\ Len(data) >= 3
    /\ data[1].folder # data[2].folder
    /\ data[2].folder # data[3].folder

====
